---- MODULE Spec2Model ----
(***************************************************************************)
(* Model of scripts/salt_lake_county.py: a crawlee PlaywrightCrawler that  *)
(* walks paginated search pages city by city, queues one detail request    *)
(* per listing card and appends one CSV row per detail page.               *)
(*                                                                         *)
(* Python strings are modelled as sequences of one-character strings, so   *)
(* that startswith, split, lower and the "in" test are computed the way    *)
(* the code computes them.  The empty string is << >>.                     *)
(*                                                                         *)
(* The handlers are asyncio coroutines on one event loop: a handler runs   *)
(* without interruption from one await to the next, so every action below  *)
(* is the code between two awaits.  Only append_to_csv is split in two     *)
(* steps, entering it and writing the row; Scheduled keeps every other     *)
(* coroutine from running in between, as the event loop does.              *)
(***************************************************************************)
EXTENDS Integers, Sequences, FiniteSets, TLC

(***************************************************************************)
(* Bounds of the model.                                                    *)
(***************************************************************************)
\* length of the draper pagination chain served by the modelled site
ChainLen == 2
\* number of injected failures (load errors, timeouts, exceptions, high
\* memory samples) in one run
MaxFaults == 3
\* stands for max_requests_per_crawl=2000 (line 79), scaled down
MaxRequestsPerCrawl == 4
\* stands for max_concurrency=5 (line 83), scaled down
MaxConcurrency == 2

(***************************************************************************)
(* Program constants.                                                      *)
(***************************************************************************)
MAX_MEMORY_GB == 7
MaxRequestRetries == 2

(***************************************************************************)
(* Strings.                                                                *)
(***************************************************************************)
\* Python's None (a missing attribute, a missing element)
None == <<"None">>

\* F(e), with e evaluated once however often F refers to its argument
Apply(F(_), e) == CHOOSE v \in {F(x) : x \in {e}} : TRUE

Min(S) == CHOOSE x \in S : \A y \in S : x <= y
Max(S) == CHOOSE x \in S : \A y \in S : x >= y

\* s.startswith(p)
StartsWith(s, p) == Len(s) >= Len(p) /\ SubSeq(s, 1, Len(p)) = p

\* the positions at which p occurs in s
Occurrences(s, p) ==
  {i \in 1..(Len(s) - Len(p) + 1) : SubSeq(s, i, i + Len(p) - 1) = p}

\* p in s
Contains(s, p) == Occurrences(s, p) # {}

\* s[i:]
From(s, i) == SubSeq(s, i, Len(s))

LowerChar(c) ==
  CASE c = "J" -> "j"
    [] c = "S" -> "s"
    [] c = "A" -> "a"
    [] OTHER -> c

\* s.lower()
Lower(s) == [i \in 1..Len(s) |-> LowerChar(s[i])]

\* s.split(m)[-1]: what follows the last of the left-to-right,
\* non-overlapping occurrences of m; s itself when m does not occur
RECURSIVE SplitLast(_, _)
SplitLast(s, m) ==
  IF Occurrences(s, m) = {} THEN s
  ELSE SplitLast(From(s, Min(Occurrences(s, m)) + Len(m)), m)

\* s.split(m)[0]: what precedes the first occurrence of m
SplitFirst(s, m) ==
  IF Occurrences(s, m) = {} THEN s
  ELSE SubSeq(s, 1, Min(Occurrences(s, m)) - 1)

\* s.strip(chars)
RECURSIVE LStrip(_, _)
LStrip(s, chars) ==
  IF s # << >> /\ s[1] \in chars THEN LStrip(Tail(s), chars) ELSE s
RECURSIVE RStrip(_, _)
RStrip(s, chars) ==
  IF s # << >> /\ s[Len(s)] \in chars
  THEN RStrip(SubSeq(s, 1, Len(s) - 1), chars) ELSE s
Strip(s, chars) == RStrip(LStrip(s, chars), chars)

\* s.replace(",", "")
RemoveCommas(s) == SelectSeq(s, LAMBDA c : c # ",")

Base == <<"h","t","t","p","s",":","/","/","w","w","w",".","u","t","a","h","r","e","a","l","e","s","t","a","t","e",".","c","o","m">>
ListingMarker == <<"/","l","i","s","t","i","n","g","/">>
HostSlash == <<"u","t","a","h","r","e","a","l","e","s","t","a","t","e",".","c","o","m","/">>
HomesSuffix == <<"-","h","o","m","e","s">>
Unknown == <<"u","n","k","n","o","w","n">>

(***************************************************************************)
(* Utilities of the script.                                                *)
(***************************************************************************)
\* check_memory: mem is the resident size in tenths of a GB;
\* mem_gb > MAX_MEMORY_GB * 0.9
MemoryExceeded(mem) == mem * 10 > MAX_MEMORY_GB * 10 * 9

\* is_valid_url
is_valid_url(url) ==
  IF url = None \/ url = << >> THEN FALSE
  ELSE ~ \E p \in {<<"j","a","v","a","s","c","r","i","p","t",":">>, <<"m","a","i","l","t","o",":">>, <<"t","e","l",":">>, <<"#">>} :
           StartsWith(Lower(url), p)

\* safe_text: el is the text of the selected element (None when the selector
\* matches nothing), raises says that the lookup threw
safe_text(el, raises) ==
  IF raises \/ el = None THEN << >> ELSE Strip(el, {" "})

\* the route test of router_handler
IsDetailRoute(url, label) == Contains(url, ListingMarker) \/ label = "detail"

\* re.search(r"utahrealestate\.com/([^/]+)-homes", url): the group is the
\* longest run of non-slash characters after the host that "-homes" follows
CityGroups(url, i) ==
  Apply(LAMBDA seg :
          {SubSeq(seg, 1, k) : k \in {j \in 1..(Len(seg) - Len(HomesSuffix)) :
             SubSeq(seg, j + 1, j + Len(HomesSuffix)) = HomesSuffix}},
        SplitFirst(From(url, i + Len(HostSlash)), <<"/">>))

SearchCity(url) ==
  Apply(LAMBDA starts :
          IF starts = {} THEN Unknown
          ELSE Apply(LAMBDA groups :
                       CHOOSE g \in groups : \A h \in groups : Len(h) <= Len(g),
                     CityGroups(url, Min(starts))),
        {i \in Occurrences(url, HostSlash) : CityGroups(url, i) # {}})

\* mls = url.split("/listing/")[-1].split("/")[0]
DetailMls(url) == SplitFirst(SplitLast(url, ListingMarker), <<"/">>)

\* detail_url = f"https://www.utahrealestate.com/listing/{mls}"
DetailUrl(mls) == Base \o ListingMarker \o mls

\* ResolveHref with a separator added between host and href
ResolveHrefExtraSlash(href) ==
  IF StartsWith(href, <<"/">>) THEN Base \o <<"/">> \o href ELSE href

\* the href of the next-page control as line 152-153 rewrites it
ResolveHref(href) == IF StartsWith(href, <<"/">>) THEN Base \o href ELSE href

\* re.sub(r"\s+", " ", agent).strip()
RECURSIVE CollapseSpaces(_)
CollapseSpaces(s) ==
  IF Len(s) < 2 THEN s
  ELSE IF s[1] = " " /\ s[2] = " " THEN CollapseSpaces(Tail(s))
  ELSE <<s[1]>> \o CollapseSpaces(Tail(s))
CleanAgent(agent) ==
  IF agent = << >> THEN << >> ELSE Strip(CollapseSpaces(agent), {" "})

\* address = f"{street}, {city_state}".strip(" ,")
Address(street, city_state) ==
  Strip(street \o <<","," ">> \o city_state, {" ", ","})

(***************************************************************************)
(* The site the crawl runs against.                                        *)
(***************************************************************************)
DigitChar == <<"1", "2", "3", "4", "5", "6", "7", "8", "9">>

\* start_urls, for two of the thirteen cities
Cities == <<<<"d","r","a","p","e","r">>, <<"s","a","n","d","y">>>>
StartUrl(c) == Base \o <<"/">> \o c \o HomesSuffix

\* draper is a chain of ChainLen search pages
DraperUrl(k) ==
  StartUrl(<<"d","r","a","p","e","r">>) \o (IF k = 1 THEN << >> ELSE <<"?","p","a","g","e","=">> \o <<DigitChar[k]>>)
SandyUrl == StartUrl(<<"s","a","n","d","y">>)
\* the second sandy page, under a url of another form; its next-page
\* control leads to a url under /listing/
SandyPage2Url == Base \o <<"/","s","a","n","d","y","?","p","a","g","e","=","2">>

\* the href values the next-page control of the sandy page may carry; the
\* last one links the page to itself
SandyHrefs ==
  { <<"j","a","v","a","s","c","r","i","p","t",":","v","o","i","d","(","0",")">>, <<"/","s","a","n","d","y","?","p","a","g","e","=","2">>, <<"s","a","n","d","y","-","h","o","m","e","s","?","p","a","g","e","=","2">>,
    <<"/","s","a","n","d","y","-","h","o","m","e","s">> }

\* get_attribute("listno") throws on this card
Raises == <<"Raises">>

\* a search page: the listno attribute of every .property___card (None when
\* the card has none, Raises when reading it throws), whether a next-page
\* control exists, and its href
NoPage == [cards |-> << >>, hasNext |-> FALSE, href |-> None]

SearchPage(url, href) ==
  IF \E k \in 1..ChainLen : url = DraperUrl(k)
  THEN LET k == CHOOSE j \in 1..ChainLen : url = DraperUrl(j)
       IN  [cards   |-> IF k = 1 THEN <<<<"7">>, None>>
                        ELSE IF k < ChainLen THEN <<Raises>> ELSE << >>,
            hasNext |-> k < ChainLen,
            href    |-> IF k < ChainLen
                        THEN <<"/","d","r","a","p","e","r","-","h","o","m","e","s","?","p","a","g","e","=">> \o <<DigitChar[k + 1]>>
                        ELSE None]
  ELSE IF url = SandyUrl
  THEN [cards |-> <<<<"7">>, <<"7","/","1">>>>, hasNext |-> TRUE, href |-> href]
  ELSE IF url = SandyPage2Url
  THEN [cards |-> <<Raises, <<"/","9">>>>, hasNext |-> TRUE, href |-> <<"/","l","i","s","t","i","n","g","/","?","p","=","3">>]
  ELSE NoPage

\* a detail page: the text of each selected element (None when the selector
\* matches nothing), whether the selector lookups throw, and the groups the
\* three patterns find in page.content()
BarePage ==
  [throws |-> FALSE, street |-> None, city_state |-> None, price |-> None, beds |-> None,
   baths |-> None, sqft |-> None, agent |-> None,
   year_built |-> None, lot_size |-> None, garage |-> None]

DetailPage(url) ==
  IF url = DetailUrl(<<"7">>)
  THEN [throws |-> FALSE, street |-> <<" ","E","l","m"," ">>, city_state |-> <<"U","T">>, price |-> <<"$","5">>,
        beds |-> <<"3">>, baths |-> <<"2">>, sqft |-> <<"1",",","2","5","0">>, agent |-> <<"A"," "," ","L"," ">>,
        year_built |-> <<"1","9","9","9">>, lot_size |-> <<"1"," ","a","c">>, garage |-> None]
  ELSE IF url = DetailUrl(<<"7","/","1">>)
  THEN [throws |-> TRUE, street |-> <<"O","a","k">>, city_state |-> None, price |-> <<"$","6">>,
        beds |-> None, baths |-> None, sqft |-> None, agent |-> <<"B">>,
        year_built |-> None, lot_size |-> None, garage |-> <<"2">>]
  ELSE BarePage

\* the resident memory check_memory may sample, in tenths of a GB
MemSamples == {10, 63, 64}

(***************************************************************************)
(* crawlee: requests and the request queue.                                *)
(***************************************************************************)
\* the unique key of a request: the url without fragment and without a
\* trailing slash on its path, lower-cased
UniqueKey(url) ==
  Apply(LAMBDA nofrag :
          Apply(LAMBDA path :
                  Apply(Lower, RStrip(path, {"/"}) \o From(nofrag, Len(path) + 1)),
                SplitFirst(nofrag, <<"?">>)),
        SplitFirst(url, <<"#">>))

\* Request.from_url(url, label=..., user_data={"city": city}); the request
\* carries its unique key
NewRequest(url, label, city) ==
  [url |-> url, key |-> UniqueKey(url), label |-> label, city |-> city,
   state |-> "pending", retries |-> 0, attempts |-> 0]

\* Request.from_url validates that the url is an absolute http(s) URL
IsHttpUrl(url) == StartsWith(url, <<"h","t","t","p",":","/","/">>) \/ StartsWith(url, <<"h","t","t","p","s",":","/","/">>)

\* the queue adds a request unless one with the same unique key is known
RECURSIVE AddRequests(_, _)
AddRequests(reqs, buf) ==
  IF buf = << >> THEN reqs
  ELSE Apply(LAMBDA added :
               Apply(LAMBDA rest : AddRequests(added, rest), Tail(buf)),
             IF \E i \in 1..Len(reqs) : reqs[i].key = Head(buf).key
             THEN reqs ELSE Append(reqs, Head(buf)))

(***************************************************************************)
(* State.                                                                  *)
(***************************************************************************)
VARIABLES
  requests,     \* the request queue: every request ever added, in order
  ctx,          \* the handler coroutine of each request: its position, the
                \* card it is at, its buffered add_requests, whether
                \* check_memory has returned in this attempt
  visited_mls,  \* the module-level set (line 18)
  csv,          \* the rows appended to CSV_FILE
  sandyHref,    \* the href the site serves on the sandy page
  faults,       \* failures injected so far
  victim,       \* the requests they hit
  memError,     \* check_memory has raised MemoryError
  claimCount    \* per listno, how often a handler found it absent and added it

vars == <<requests, ctx, visited_mls, csv, sandyHref, faults, victim, memError,
          claimCount>>

shared == <<visited_mls, csv>>
env == <<sandyHref, faults, victim>>
hist == <<memError, claimCount>>

Idle == [pc |-> "idle", i |-> 0, buf |-> << >>, checked |-> FALSE]

\* every listno the site shows on a card
Listnos == {<<"7">>, <<"7","/","1">>, <<"/","9">>}

Reqs == 1..Len(requests)
InFlight == {r \in Reqs : requests[r].state = "inflight"}
Finished == {r \in Reqs : requests[r].state = "handled"}
Failed == {r \in Reqs : requests[r].state = "failed"}
Pending == {r \in Reqs : requests[r].state = "pending"}

\* the handlers inside append_to_csv: the file is open, the row not written
Appending == {r \in Reqs : ctx[r].pc = "append"}

\* Scheduled of an event loop that could switch coroutines inside
\* append_to_csv, as it would if the file were written with awaits
ScheduledAnyTime(r) == TRUE

\* the event loop runs one coroutine until it awaits: append_to_csv awaits
\* nothing, so while a handler is inside it no other coroutine runs
Scheduled(r) == Appending \subseteq {r}

\* main: init_csv() and crawler.run(start_urls)
Init ==
  /\ requests = [c \in 1..Len(Cities) |->
                   NewRequest(StartUrl(Cities[c]), "none", None)]
  /\ ctx = [c \in 1..Len(Cities) |-> Idle]
  /\ visited_mls = {}
  /\ csv = << >>
  /\ sandyHref \in SandyHrefs
  /\ faults = 0
  /\ victim = {}
  /\ memError = FALSE
  /\ claimCount = [m \in Listnos |-> 0]

\* the environment fails one operation of request r: a load error, a timeout,
\* an exception of the page, a high memory sample.  The failures of one run
\* hit one request.
Fault(r) ==
  /\ faults < MaxFaults
  /\ victim \in {{}, {r}}
  /\ faults' = faults + 1
  /\ victim' = {r}
  /\ sandyHref' = sandyHref

(***************************************************************************)
(* crawlee: dispatch, retry and completion of a request.                   *)
(***************************************************************************)
\* IsTaskReady of a crawl that stops once a request was dropped
IsTaskReadyStopOnFailure ==
  /\ Cardinality(InFlight) < MaxConcurrency
  /\ Cardinality(Finished) < MaxRequestsPerCrawl
  /\ Failed = {}

\* IsTaskReady without the ceiling on finished requests
IsTaskReadyNoCeiling == Cardinality(InFlight) < MaxConcurrency

\* IsTaskReady of a pool that admits one task more than max_concurrency
IsTaskReadyOneMore ==
  /\ Cardinality(InFlight) <= MaxConcurrency
  /\ Cardinality(Finished) < MaxRequestsPerCrawl

\* the pool starts a task while fewer than max_concurrency run and fewer than
\* max_requests_per_crawl requests have finished
IsTaskReady ==
  /\ Cardinality(InFlight) < MaxConcurrency
  /\ Cardinality(Finished) < MaxRequestsPerCrawl

\* ShouldRetry counting attempts instead of retries
ShouldRetryOffByOne(req) == req.retries + 1 < MaxRequestRetries

\* a failed attempt is retried while retry_count < max_request_retries
ShouldRetry(req) == req.retries < MaxRequestRetries

\* FailAttempt of a queue that never reclaims the request of a failed attempt
FailAttemptNotReclaimed(r) ==
  /\ requests' = requests
  /\ ctx' = [ctx EXCEPT ![r] = Idle]

\* the attempt of r ends with an error: its buffered add_requests are
\* discarded; the request is reclaimed for a retry or marked failed
FailAttempt(r) ==
  /\ requests' = [requests EXCEPT ![r] =
       IF ShouldRetry(@)
       THEN [@ EXCEPT !.state = "pending", !.retries = @ + 1]
       ELSE [@ EXCEPT !.state = "failed"]]
  /\ ctx' = [ctx EXCEPT ![r] = Idle]

\* the handler of r returned: its buffered add_requests reach the queue and
\* the request is marked handled
Complete(r, buf) ==
  \E all \in {AddRequests([requests EXCEPT ![r].state = "handled"], buf)} :
    /\ requests' = all
    /\ ctx' = [k \in 1..Len(all) |->
                 IF k = r \/ k > Len(ctx) THEN Idle ELSE ctx[k]]

\* the queue hands out its requests in the order they were added; the page
\* of the request starts to load
Dispatch(r) ==
  /\ requests[r].state = "pending"
  /\ Scheduled(r)
  /\ r = Min(Pending)
  /\ IsTaskReady
  /\ requests' = [requests EXCEPT ![r].state = "inflight",
                                  ![r].attempts = @ + 1]
  /\ ctx' = [ctx EXCEPT ![r].pc = "navigate"]
  /\ UNCHANGED <<shared, env, hist>>

\* the navigation failed or timed out
LoadFails(r) ==
  /\ ctx[r].pc = "navigate"
  /\ Scheduled(r)
  /\ Fault(r)
  /\ FailAttempt(r)
  /\ UNCHANGED <<shared, hist>>

(***************************************************************************)
(* router_handler.                                                         *)
(***************************************************************************)
\* the page of r, as the site serves it
PageOf(r) == SearchPage(requests[r].url, sandyHref)

\* the page loaded and the handler is called: check_memory passes, the
\* handler awaits wait_for_load_state and the settle sleep and routes; the
\* search extractor finds cards, the detail extractor sleeps
RouterHandler(r) ==
  /\ ctx[r].pc = "navigate"
  /\ Scheduled(r)
  /\ \E mem \in MemSamples : ~ MemoryExceeded(mem)
  /\ IsDetailRoute(requests[r].url, requests[r].label) \/ PageOf(r).cards # << >>
  /\ ctx' = [ctx EXCEPT ![r].pc =
       IF IsDetailRoute(requests[r].url, requests[r].label)
       THEN "detail" ELSE "cards", ![r].i = 1, ![r].checked = TRUE]
  /\ UNCHANGED <<requests, shared, env, hist>>

\* the page loaded and the handler is called: check_memory raises
\* MemoryError, which ends the attempt like any exception of the handler
RouterMemoryError(r) ==
  /\ ctx[r].pc = "navigate"
  /\ Scheduled(r)
  /\ \E mem \in MemSamples : MemoryExceeded(mem)
  /\ Fault(r)
  /\ memError' = TRUE
  /\ FailAttempt(r)
  /\ UNCHANGED <<shared, claimCount>>

\* an await of the search extractor outside every try block raises or is
\* cancelled by the handler timeout: wait_for_load_state, the settle sleep,
\* query_selector_all, the card loop (a cancellation is no Exception), the
\* next-page lookup
HandlerRaises(r) ==
  /\ ctx[r].pc \in {"cards", "pagination"}
  /\ Scheduled(r)
  /\ Fault(r)
  /\ FailAttempt(r)
  /\ UNCHANGED <<shared, hist>>

(***************************************************************************)
(* extract_search_results.                                                 *)
(***************************************************************************)
\* IsVisited against a set that is empty for every handler call, as a set
\* created inside extract_search_results would be
IsVisitedLocalSet(mls, visited) == mls \in {}

\* mls in visited_mls
IsVisited(mls, visited) == mls \in visited

\* the page loaded, check_memory passes and the handler routes to the search
\* extractor; the page shows no card and wait_for_selector times out: the
\* except clause logs and returns
SearchNoListings(r) ==
  /\ ctx[r].pc = "navigate"
  /\ Scheduled(r)
  /\ \E mem \in MemSamples : ~ MemoryExceeded(mem)
  /\ ~ IsDetailRoute(requests[r].url, requests[r].label)
  /\ PageOf(r).cards = << >>
  /\ Complete(r, << >>)
  /\ UNCHANGED <<shared, env, hist>>

\* the position of the handler after card i
AfterCard(r, i) == IF i + 1 > Len(PageOf(r).cards) THEN "pagination" ELSE "cards"

\* one turn of the card loop: get_attribute returns, the listno is checked
\* against visited_mls and added, the detail request is buffered
SearchCard(r) ==
  LET c    == ctx[r]
      mls  == PageOf(r).cards[c.i]
      skip == mls = None \/ mls = << >> \/ IsVisited(mls, visited_mls)
  IN  /\ c.pc = "cards"
      /\ Scheduled(r)
      /\ mls # Raises
      /\ visited_mls' = IF skip THEN visited_mls ELSE visited_mls \cup {mls}
      /\ claimCount' = IF skip THEN claimCount
                       ELSE [claimCount EXCEPT ![mls] = @ + 1]
      /\ ctx' = [ctx EXCEPT ![r].pc = AfterCard(r, c.i), ![r].i = c.i + 1,
                            ![r].buf = IF skip THEN @
                              ELSE Append(@, NewRequest(DetailUrl(mls), "detail",
                                            SearchCity(requests[r].url)))]
      /\ UNCHANGED <<requests, csv, env, memError>>

\* get_attribute raises: the except clause logs and the loop goes on
SearchCardError(r) ==
  LET c == ctx[r]
  IN  /\ c.pc = "cards"
      /\ Scheduled(r)
      /\ PageOf(r).cards[c.i] = Raises
      /\ ctx' = [ctx EXCEPT ![r].pc = AfterCard(r, c.i), ![r].i = c.i + 1]
      /\ UNCHANGED <<requests, shared, env, hist>>

\* the request line 155-157 builds for the next page, << >> when none is
NextRequests(page, city) ==
  IF page.hasNext /\ page.href # None /\ page.href # << >>
     /\ is_valid_url(page.href)
  THEN <<NewRequest(ResolveHref(page.href), "none", city)>>
  ELSE << >>

\* pagination: the next-page control is looked up and its request buffered;
\* the handler returns
SearchPagination(r) ==
  /\ ctx[r].pc = "pagination"
  /\ Scheduled(r)
  /\ \E nxt \in {NextRequests(PageOf(r), SearchCity(requests[r].url))} :
       /\ \A k \in 1..Len(nxt) : IsHttpUrl(nxt[k].url)
       /\ Complete(r, ctx[r].buf \o nxt)
  /\ UNCHANGED <<shared, env, hist>>

\* pagination: Request.from_url rejects an href that is no absolute URL
SearchPaginationRejected(r) ==
  /\ ctx[r].pc = "pagination"
  /\ Scheduled(r)
  /\ \E nxt \in {NextRequests(PageOf(r), SearchCity(requests[r].url))} :
       \E k \in 1..Len(nxt) : ~ IsHttpUrl(nxt[k].url)
  /\ FailAttempt(r)
  /\ UNCHANGED <<shared, env, hist>>

(***************************************************************************)
(* extract_detail.                                                         *)
(***************************************************************************)
\* lines 167-212: the selector lookups, the three patterns over
\* page.content(), the agent lookup and the row
DetailRow(req, page) ==
  [mls        |-> DetailMls(req.url),
   price      |-> safe_text(page.price, page.throws),
   address    |-> Address(safe_text(page.street, page.throws),
                          safe_text(page.city_state, page.throws)),
   beds       |-> RemoveCommas(safe_text(page.beds, page.throws)),
   baths      |-> RemoveCommas(safe_text(page.baths, page.throws)),
   sqft       |-> RemoveCommas(safe_text(page.sqft, page.throws)),
   year_built |-> IF page.year_built = None THEN << >> ELSE page.year_built,
   lot_size   |-> IF page.lot_size = None THEN << >> ELSE page.lot_size,
   garage     |-> IF page.garage = None THEN << >> ELSE page.garage,
   agent      |-> CleanAgent(safe_text(page.agent, page.throws)),
   city       |-> IF req.city = None THEN Unknown ELSE req.city]

\* page.content() raises or is cancelled by the handler timeout: no try
\* block surrounds it
DetailContentRaises(r) ==
  /\ ctx[r].pc = "detail"
  /\ Scheduled(r)
  /\ Fault(r)
  /\ FailAttempt(r)
  /\ UNCHANGED <<shared, hist>>

\* every lookup returns; the row is built and append_to_csv is entered: it
\* opens CSV_FILE for appending (line 38)
DetailOpenCsv(r) ==
  /\ ctx[r].pc = "detail"
  /\ Scheduled(r)
  /\ ctx' = [ctx EXCEPT ![r].pc = "append"]
  /\ UNCHANGED <<requests, shared, env, hist>>

\* append_to_csv writes the row and closes the file (lines 39-40); the
\* handler logs and returns
DetailAppend(r) ==
  /\ ctx[r].pc = "append"
  /\ Scheduled(r)
  /\ csv' = Append(csv, DetailRow(requests[r], DetailPage(requests[r].url)))
  /\ Complete(r, ctx[r].buf)
  /\ UNCHANGED <<visited_mls, env, hist>>

(***************************************************************************)
(* The crawl.                                                              *)
(***************************************************************************)
Next ==
  \/ \E r \in Reqs : Dispatch(r)
  \/ \E r \in Reqs : LoadFails(r)
  \/ \E r \in Reqs : RouterHandler(r)
  \/ \E r \in Reqs : RouterMemoryError(r)
  \/ \E r \in Reqs : HandlerRaises(r)
  \/ \E r \in Reqs : SearchNoListings(r)
  \/ \E r \in Reqs : SearchCard(r)
  \/ \E r \in Reqs : SearchCardError(r)
  \/ \E r \in Reqs : SearchPagination(r)
  \/ \E r \in Reqs : SearchPaginationRejected(r)
  \/ \E r \in Reqs : DetailContentRaises(r)
  \/ \E r \in Reqs : DetailOpenCsv(r)
  \/ \E r \in Reqs : DetailAppend(r)

Spec == Init /\ [][Next]_vars

\* the event loop runs a coroutine that is ready and the pool starts a
\* request when IsTaskReady: the crawl never stalls while a step is possible
FairSpec == Spec /\ WF_vars(Next)

\* crawler.run has returned
CrawlDone ==
  /\ InFlight = {}
  /\ Pending = {} \/ Cardinality(Finished) >= MaxRequestsPerCrawl

TypeOK ==
  /\ \A r \in Reqs : requests[r].state \in {"pending", "inflight", "handled", "failed"}
  /\ Len(ctx) = Len(requests)
  /\ faults \in 0..MaxFaults

(***************************************************************************)
(* Properties.                                                             *)
(***************************************************************************)
Rows == 1..Len(csv)

\* the requests routed to the search extractor: none of them carries the
\* label detail, and the route test decides for the others
SearchReqs ==
  {r \in {q \in Reqs : requests[q].label # "detail"} :
     ~ IsDetailRoute(requests[r].url, requests[r].label)}

\* C1: within one run append_to_csv is never called twice with the same mls
C1_NoDuplicateMls ==
  \A i, j \in Rows : i # j => csv[i].mls # csv[j].mls

\* C2: for every listno exactly one handler finds it absent from visited_mls
\* and adds it, however many handlers see a card with it: the listno is
\* claimed once when it is in visited_mls and never otherwise
C2_ClaimOnce ==
  \A m \in Listnos : claimCount[m] = IF m \in visited_mls THEN 1 ELSE 0

\* two search handlers in flight have both gone past a card with listno 7
C2_Witness ==
  \E r, q \in InFlight :
    /\ r # q
    /\ \A h \in {r, q} : /\ ctx[h].pc \in {"cards", "pagination"}
                          /\ ctx[h].i >= 2
                          /\ PageOf(h).cards[1] = <<"7">>
    /\ claimCount[<<"7">>] = 1

\* C3: once check_memory has raised MemoryError no further task is dispatched
C3_HaltAfterMemoryError ==
  [][memError => \A r \in Reqs : requests'[r].attempts = requests[r].attempts]_vars

\* the attempts of a request and its retry count, by its state
C4_Attempts ==
  \A r \in Reqs :
    LET q == requests[r]
    IN  /\ q.attempts <= 1 + MaxRequestRetries
        /\ q.state = "pending" => q.attempts = q.retries
        /\ q.state = "inflight" => q.attempts = q.retries + 1
        /\ q.state = "failed" => /\ q.attempts = 1 + MaxRequestRetries
                                 /\ q.retries = MaxRequestRetries

\* a dropped request never changes again, and a drop changes only it
C4_Dropped ==
  \A r \in Reqs :
    /\ requests[r].state = "failed" => requests'[r] = requests[r]
    /\ requests[r].state # "failed" /\ requests'[r].state = "failed"
         => /\ Len(requests') = Len(requests)
            /\ \A q \in Reqs \ {r} : requests'[q] = requests[q]

C5_CrawlGoesOn ==
  (Pending # {} /\ Cardinality(InFlight) < MaxConcurrency
     /\ Cardinality(Finished) < MaxRequestsPerCrawl /\ Appending = {})
  => ENABLED (\E r \in Reqs : Dispatch(r))

\* a failed attempt changes no other request and no other handler
C5_Isolated ==
  \A r \in Reqs :
    (requests[r].state = "inflight" /\ requests'[r].state \in {"pending", "failed"})
    => \A q \in Reqs \ {r} : requests'[q] = requests[q] /\ ctx'[q] = ctx[q]

DraperSearch ==
  {r \in Reqs :
     /\ requests[r].label # "detail"
     /\ StartsWith(requests[r].url, StartUrl(<<"d","r","a","p","e","r">>))
     /\ ~ IsDetailRoute(requests[r].url, requests[r].label)}

\* the search requests of the draper chain, one per page
C6_Chain ==
  LET chain   == DraperSearch
      urls    == {requests[r].url : r \in chain}
      handled == {requests[r].url : r \in {q \in chain : requests[q].state = "handled"}}
      pages   == {DraperUrl(k) : k \in 1..ChainLen}
  IN  /\ Cardinality(chain) <= ChainLen
      /\ urls \subseteq pages
      /\ \A k \in 1..(ChainLen - 1) :
           DraperUrl(k) \in handled => DraperUrl(k + 1) \in urls
      /\ handled = urls => Cardinality(chain) = ChainLen

\* no step changes the url of a queued request or adds more than one search
\* request
C6_OneFollowUp ==
  /\ Len(requests') >= Len(requests)
  /\ \A r \in Reqs : requests'[r].url = requests[r].url
  /\ Cardinality({r \in (Len(requests) + 1)..Len(requests') :
                    ~ IsDetailRoute(requests'[r].url, requests'[r].label)}) <= 1

AbsoluteForm(href) ==
  IF IsHttpUrl(href) THEN href
  ELSE IF StartsWith(href, <<"/">>) THEN Base \o href
  ELSE Base \o <<"/">> \o href

\* the search requests pushed for the next page of the sandy page
SandyNext == {r \in SearchReqs : r > Len(Cities) /\ r \notin DraperSearch}

\* C7: once the sandy page has been processed without any injected failure,
\* an href that begins with javascript:, mailto:, tel: or # or is empty has
\* pushed no search request, and every other href exactly one, whose url is
\* the absolute form of the href
C7_NextPageRequest ==
  (faults = 0 /\ \E r \in Reqs : /\ requests[r].url = SandyUrl
                                 /\ requests[r].state \in {"handled", "failed"})
  => IF sandyHref = << >>
        \/ \E p \in {<<"j","a","v","a","s","c","r","i","p","t",":">>, <<"m","a","i","l","t","o",":">>, <<"t","e","l",":">>, <<"#">>} :
             StartsWith(sandyHref, p)
     THEN SandyNext = {}
     ELSE /\ Cardinality(SandyNext) = 1
          /\ \A r \in SandyNext : requests[r].url = AbsoluteForm(sandyHref)

\* C8: every attempt that enters extract_detail ends with one row appended
C8_DetailAlwaysAppends ==
  [][\A r \in Reqs :
       (ctx[r].pc \in {"detail", "append"} /\ ctx'[r].pc = "idle")
       => Len(csv') = Len(csv) + 1]_vars

\* C9: every appended row has a non-empty mls
C9_NonEmptyMls == \A i \in Rows : csv[i].mls # << >>

C10_Processed ==
  Cardinality(Finished) + Cardinality(InFlight)
    <= MaxRequestsPerCrawl + MaxConcurrency - 1

\* at the ceiling no request starts an attempt
C10_NoDispatchAtCeiling ==
  Cardinality(Finished) >= MaxRequestsPerCrawl
  => \A r \in Reqs : requests'[r].attempts = requests[r].attempts

ClaimedBy(r) ==
  {m \in Listnos :
     \E k \in 1..Len(ctx[r].buf) : ctx[r].buf[k].url = DetailUrl(m)}

\* C13: a step that ends an attempt of r with a failure leaves the sink and
\* the queue's contents as they are, and none of the listnos the attempt
\* claimed is in visited_mls afterwards, so that the retry finds what the
\* failed attempt found
C13_FailedAttemptNoEffect ==
  [][\A r \in Reqs :
       (requests[r].state = "inflight"
          /\ requests'[r].state \in {"pending", "failed"})
       => /\ csv' = csv
          /\ Len(requests') = Len(requests)
          /\ \A q \in Reqs \ {r} : requests'[q] = requests[q]
          /\ ClaimedBy(r) \cap visited_mls' = {}]_vars

\* the queued detail requests of listno m
DetailReqs(m) == {q \in Reqs : requests[q].url = DetailUrl(m)}

\* C14: every listno in visited_mls has exactly one detail request, with url
\* https://www.utahrealestate.com/listing/<listno>, the label detail and the
\* city of a search page, in the queue or still in the buffer of the running
\* attempt that claimed it; and no listno has more than one in the queue
C14_ClaimedHasDetailTask ==
  /\ \A m \in visited_mls :
       \/ \E r \in InFlight : m \in ClaimedBy(r)
       \/ \E q \in DetailReqs(m) :
            /\ requests[q].label = "detail"
            /\ \E c \in 1..Len(Cities) : requests[q].city = Cities[c]
  /\ \A m \in Listnos : Cardinality(DetailReqs(m)) <= 1

\* the cities of the seeds
SeedCities == {Cities[c] : c \in 1..Len(Cities)}

\* C15: a search request pushed for a next-page link is handled with the
\* city it carries, the city of the page it was found on, and every detail
\* request and every row has the city of a seed
C15_CityOfSeed ==
  /\ \A q \in SearchReqs :
       requests[q].city # None => SearchCity(requests[q].url) = requests[q].city
  /\ \A q \in Reqs \ SearchReqs : requests[q].city \in SeedCities
  /\ \A i \in Rows : csv[i].city \in SeedCities

\* C16: the detail extractor runs only for requests pushed with the label
\* detail, and the search extractor only for the others
C16_RoutedByKind ==
  \A r \in InFlight :
    /\ ctx[r].pc = "detail" => requests[r].label = "detail"
    /\ ctx[r].pc \in {"cards", "pagination"} => requests[r].label # "detail"

\* C17: in every attempt check_memory has returned before the page of the
\* request is loaded and before the extractor acts
C17_CheckBeforeLoad ==
  \A r \in InFlight :
    ctx[r].pc \in {"navigate", "cards", "pagination", "detail"} => ctx[r].checked

\* at most one handler is inside append_to_csv
C18_OneAppender == Cardinality(Appending) <= 1

\* while a handler is inside append_to_csv the next step is its own: it
\* writes its row, one row, and leaves
C18_AppendNotInterleaved ==
  \A r \in Appending :
    /\ ctx'[r].pc = "idle"
    /\ csv' = Append(csv, DetailRow(requests[r], DetailPage(requests[r].url)))
    /\ \A q \in Reqs \ {r} : ctx'[q] = ctx[q]

\* C18: appends are serialized: no two handlers are inside append_to_csv at
\* once, and no other handler takes a step while one is inside
C18_AppendsSerialized == []C18_OneAppender /\ [][C18_AppendNotInterleaved]_vars

\* a handler is inside append_to_csv while another detail handler is in
\* flight, suspended before its own append
C18_Witness ==
  \E r \in Appending : \E q \in InFlight : q # r /\ ctx[q].pc = "detail"

\* the mls of every row is in visited_mls
C19_RowsClaimed == \A i \in Rows : csv[i].mls \in visited_mls

\* C19: the mls of every appended row is a member of visited_mls, and
\* visited_mls never loses a member
C19_AppendedWereClaimed ==
  []C19_RowsClaimed /\ [][visited_mls \subseteq visited_mls']_vars

====
